---- MODULE Spec2Model ----
(***************************************************************************)
(* Model of the apparel search backend (src/app.py): the HTTP handler      *)
(* find_apparel_api, the search function find_apparel with its three       *)
(* retrieval stages, and the filter compiler get_chromadb_filters.         *)
(*                                                                         *)
(* The embedding provider (OpenAI) and the vector store (ChromaDB) are     *)
(* external: every call to them either succeeds or raises, and the model   *)
(* takes both outcomes at every call site.  A successful store query       *)
(* returns the metadata of the records that satisfy the "where" predicate, *)
(* nearest first, at most n_results of them.                               *)
(***************************************************************************)
EXTENDS Naturals, Sequences, FiniteSets

(***************************************************************************)
(* Python values                                                           *)
(***************************************************************************)
\* Python's None (an absent JSON key read with dict.get, or an unset argument).
None == "<None>"

\* Truthiness of an optional string: None and "" are falsy.
Truthy(x) == x # None /\ x # ""

\* str.lower() on the strings the model feeds in; every other modelled string
\* is already lower-case and maps to itself.
Lower(s) ==
    CASE s = "Male"       -> "male"
      [] s = "FEMALE"     -> "female"
      [] s = "UNISEX"     -> "unisex"
      [] s = "Summer"     -> "summer"
      [] s = "ALL-SEASON" -> "all-season"
      [] s = "Top"        -> "top"
      [] s = "Dresses"    -> "dresses"
      [] s = "Dress"      -> "dress"
      [] s = "Red"        -> "red"
      [] s = "Sleeveless" -> "sleeveless"
      [] s = "Maxi"       -> "maxi"
      [] s = "N/A"        -> "n/a"
      [] OTHER            -> s

(***************************************************************************)
(* Valid enum values (module-level sets)                                   *)
(***************************************************************************)
VALID_GENDERS == {"male", "female", "unisex"}
VALID_MASTER_CATEGORIES ==
    {"top", "bottom", "accessory", "footwear", "top & foot combined"}
VALID_SUBCATEGORIES ==
    {"shirt", "t-shirt", "polo shirt", "dress", "gown", "shorts", "jeans",
     "sweater", "top", "flats", "heels", "sneakers", "boots", "sandals",
     "jewelry", "bag", "hat", "scarf", "belt", "sunglasses", "N/A"}
VALID_SEASONS == {"summer", "winter", "spring", "fall", "all-season"}
VALID_SLEEVE_LENGTHS ==
    {"full sleeve", "half sleeve", "quarter sleeve", "sleeveless", "strapless", "N/A"}
VALID_ITEM_LENGTHS ==
    {"mini", "short", "knee-length", "midi", "maxi", "full length", "N/A"}
VALID_CATEGORIES ==
    {"dresses", "shirts", "jeans", "tops", "footwear", "accessories", "sweaters",
     "shorts", "pants"}

(***************************************************************************)
(* Store predicates ("where" documents)                                    *)
(*   {}                      -> op "{}"                                    *)
(*   {field: value}          -> op "eq"                                    *)
(*   {field: {"$eq": value}} -> op "$eq"                                   *)
(*   {"$or": [...]}          -> op "$or",  alts = the operands             *)
(*   {"$and": [...]}         -> op "$and", args = the operands, in order   *)
(* The operands of "$or" are kept as a set: the season list is built by    *)
(* iterating a Python set, whose order is not fixed by the program.        *)
(***************************************************************************)
NoFilter == [op |-> "{}", field |-> None, value |-> None, alts |-> {}, args |-> <<>>]
Leaf(f, v) == [op |-> "eq", field |-> f, value |-> v, alts |-> {}, args |-> <<>>]
EqLeaf(f, v) == [op |-> "$eq", field |-> f, value |-> v, alts |-> {}, args |-> <<>>]
Or(ls) == [op |-> "$or", field |-> None, value |-> None, alts |-> ls, args |-> <<>>]
And(cs) == [op |-> "$and", field |-> None, value |-> None, alts |-> {}, args |-> cs]

\* bool(current_filters): an empty dict is falsy.
NonEmptyFilter(cf) == cf.op # "{}"

(***************************************************************************)
(* get_chromadb_filters: one block per field, each appending zero or one   *)
(* clause to individual_filters, in the order of the source.               *)
(***************************************************************************)
\* Mutant of GenderFilters: male and female no longer admit unisex records.
GenderFilters_NoUnisex(g) ==
    IF Truthy(g)
    THEN IF Lower(g) \in {"male", "female"}
         THEN << Leaf("gender", Lower(g)) >>
         ELSE IF Lower(g) = "unisex"
              THEN << Leaf("gender", "unisex") >>
              ELSE << >>
    ELSE << >>

GenderFilters(g) ==
    IF Truthy(g)
    THEN IF Lower(g) \in {"male", "female"}
         THEN << Or({Leaf("gender", Lower(g)), Leaf("gender", "unisex")}) >>
         ELSE IF Lower(g) = "unisex"
              THEN << Leaf("gender", "unisex") >>
              ELSE << >>
    ELSE << >>

MasterCategoryFilters(mc) ==
    IF Truthy(mc) /\ Lower(mc) \in VALID_MASTER_CATEGORIES
    THEN << Leaf("master_category", Lower(mc)) >>
    ELSE << >>

CategoryFilters(cat) ==
    IF Truthy(cat) /\ Lower(cat) \in VALID_CATEGORIES
    THEN << Leaf("category", Lower(cat)) >>
    ELSE << >>

\* Mutant of SubcategoryFilters: membership is tested on the value as sent and
\* the sentinel test is missing.
SubcategoryFilters_NoSentinelCheck(sc) ==
    IF Truthy(sc) /\ (sc \in VALID_SUBCATEGORIES \/ Lower(sc) \in VALID_SUBCATEGORIES)
    THEN << Leaf("subcategory", Lower(sc)) >>
    ELSE << >>

SubcategoryFilters(sc) ==
    IF Truthy(sc) /\ Lower(sc) \in VALID_SUBCATEGORIES /\ Lower(sc) # "n/a"
    THEN << Leaf("subcategory", Lower(sc)) >>
    ELSE << >>

\* Mutant of ColorFilters: the color is compared as sent, not lower-cased.
ColorFilters_NoLower(c) ==
    IF Truthy(c) THEN << EqLeaf("color", c) >> ELSE << >>

ColorFilters(c) ==
    IF Truthy(c) THEN << EqLeaf("color", Lower(c)) >> ELSE << >>

\* Mutant of SeasonFilters: the all-season list leaves out the "all-season" token.
SeasonFilters_ConcreteOnly(s) ==
    IF Truthy(s)
    THEN IF Lower(s) = "all-season"
         THEN << Or({Leaf("season", single_s) :
                       single_s \in {valid_s \in VALID_SEASONS : valid_s # "all-season"}}) >>
         ELSE IF Lower(s) \in VALID_SEASONS
              THEN << Leaf("season", Lower(s)) >>
              ELSE << >>
    ELSE << >>

\* all_possible_seasons keeps every member of VALID_SEASONS other than "n/a".
SeasonFilters(s) ==
    IF Truthy(s)
    THEN IF Lower(s) = "all-season"
         THEN << Or({Leaf("season", single_s) :
                       single_s \in {valid_s \in VALID_SEASONS : valid_s # "n/a"}}) >>
         ELSE IF Lower(s) \in VALID_SEASONS
              THEN << Leaf("season", Lower(s)) >>
              ELSE << >>
    ELSE << >>

SleeveLengthFilters(sl) ==
    IF Truthy(sl) /\ Lower(sl) \in VALID_SLEEVE_LENGTHS /\ Lower(sl) # "n/a"
    THEN << Leaf("sleeve_length", Lower(sl)) >>
    ELSE << >>

ItemLengthFilters(il) ==
    IF Truthy(il) /\ Lower(il) \in VALID_ITEM_LENGTHS /\ Lower(il) # "n/a"
    THEN << Leaf("item_length", Lower(il)) >>
    ELSE << >>

\* Mutant of Combine: a single clause is wrapped in "$and" too.
Combine_AlwaysAnd(individual_filters) ==
    IF individual_filters = << >>
    THEN NoFilter
    ELSE And(individual_filters)

\* The tail of get_chromadb_filters: {} / the single clause / {"$and": [...]}.
Combine(individual_filters) ==
    IF individual_filters = << >>
    THEN NoFilter
    ELSE IF Len(individual_filters) = 1
         THEN individual_filters[1]
         ELSE And(individual_filters)

individual_filters_of(g, mc, sc, c, s, sl, il, cat) ==
    GenderFilters(g) \o MasterCategoryFilters(mc) \o CategoryFilters(cat)
      \o SubcategoryFilters(sc) \o ColorFilters(c) \o SeasonFilters(s)
      \o SleeveLengthFilters(sl) \o ItemLengthFilters(il)

get_chromadb_filters(g, mc, sc, c, s, sl, il, cat) ==
    Combine(individual_filters_of(g, mc, sc, c, s, sl, il, cat))

(***************************************************************************)
(* The vector store (ChromaDB collection) as the search path sees it       *)
(***************************************************************************)
\* Whether a stored metadata record satisfies a where-document.
LeafHolds(rec, l) == rec[l.field] = l.value

ClauseHolds(rec, cl) ==
    CASE cl.op \in {"eq", "$eq"} -> LeafHolds(rec, cl)
      [] cl.op = "$or"           -> \E l \in cl.alts : LeafHolds(rec, l)
      [] OTHER                   -> FALSE

Matches(rec, where) ==
    CASE where.op = "{}"   -> TRUE
      [] where.op = "$and" -> \A i \in 1..Len(where.args) : ClauseHolds(rec, where.args[i])
      [] OTHER             -> ClauseHolds(rec, where)

\* The embedding of a query text (text-embedding-3-small), reduced to one
\* coordinate; a record's embedding is its field vec.
Embedding(text) == IF text = "shoes" THEN << 9 >> ELSE << 1 >>

Distance(e, rec) == IF rec.vec >= e[1] THEN rec.vec - e[1] ELSE e[1] - rec.vec

\* The records of recs nearest first (ties: insertion order).
RECURSIVE Ranked(_, _)
Ranked(recs, e) ==
    IF recs = << >>
    THEN << >>
    ELSE LET best == CHOOSE i \in 1..Len(recs) :
                        \A j \in 1..Len(recs) :
                            \/ Distance(e, recs[i]) < Distance(e, recs[j])
                            \/ (Distance(e, recs[i]) = Distance(e, recs[j]) /\ i <= j)
             rest == [k \in 1..(Len(recs) - 1) |-> IF k < best THEN recs[k] ELSE recs[k + 1]]
         IN << recs[best] >> \o Ranked(rest, e)

FirstN(seq, n) == IF Len(seq) <= n THEN seq ELSE SubSeq(seq, 1, n)

\* results['metadatas'][0] of collection.query(query_embeddings=[e], n_results=n, where=w)
QueryMetadatas(recs, e, n, where) ==
    LET IsMatch(rec) == Matches(rec, where)
    IN FirstN(Ranked(SelectSeq(recs, IsMatch), e), n)

N_RESULTS == 10

(***************************************************************************)
(* Inputs                                                                  *)
(***************************************************************************)
\* Values a client sends for each filter field: absent, valid (in mixed
\* case), unknown, the N/A sentinel, the empty string.
GenderInputs == {None, "Male", "UNISEX", "kids"}
SeasonInputs == {None, "Summer", "ALL-SEASON", "monsoon"}
MasterCategoryInputs == {None, "Top", "outerwear"}
CategoryInputs == {None, "Dresses", "gadgets"}
SubcategoryInputs == {None, "Dress", "N/A"}
ColorInputs == {None, "", "Red"}
SleeveLengthInputs == {None, "Sleeveless", "N/A"}
ItemLengthInputs == {None, "Maxi", "n/a"}
QueryInputs == {None, "", "red summer dress"}

NoFilters ==
    [gender |-> None, master_category |-> None, subcategory |-> None, color |-> None,
     season |-> None, sleeve_length |-> None, item_length |-> None, category |-> None]

FilterRequests ==
    [gender : GenderInputs, master_category : MasterCategoryInputs,
     subcategory : SubcategoryInputs, color : ColorInputs, season : SeasonInputs,
     sleeve_length : SleeveLengthInputs, item_length : ItemLengthInputs,
     category : CategoryInputs]

\* The shapes of a POST body, by the branch of find_apparel_api they take:
\*   "not_json"   request.json raises (no JSON body)
\*   "empty"      the body is falsy ({} or null)
\*   "no_key"     no 'apparel_search_data' key
\*   "bad_string" 'apparel_search_data' is a string that is not JSON
\*   "not_dict"   the arguments parse to a value without .get (a list)
\*   "args"       the arguments are a dict; 'filters' is absent, null or a dict
BodyShapes == {"not_json", "empty", "no_key", "bad_string", "not_dict", "args"}
FiltersShapes == {"absent", "null", "dict"}

Requests ==
    [body : BodyShapes \ {"args"}, user_query : {None}, filters_shape : {"absent"},
     filters : {NoFilters}]
    \cup [body : {"args"}, user_query : QueryInputs, filters_shape : {"absent", "null"},
          filters : {NoFilters}]
    \cup [body : {"args"}, user_query : QueryInputs \ {None, ""}, filters_shape : {"dict"},
          filters : FilterRequests]
    \cup [body : {"args"}, user_query : {None, ""}, filters_shape : {"dict"},
          filters : {[NoFilters EXCEPT !.gender = "Male"]}]

\* Catalog records as stored by the ingestion script (metadata plus embedding).
Product(i, v, g, mc, cat, sc, c, s, sl, il) ==
    [id |-> i, vec |-> v, gender |-> g, master_category |-> mc, category |-> cat,
     subcategory |-> sc, color |-> c, season |-> s, sleeve_length |-> sl,
     item_length |-> il]

RedDress == Product(1, 2, "female", "top", "dresses", "dress", "red", "summer",
                    "sleeveless", "maxi")
BlueDress == Product(2, 1, "female", "top", "dresses", "dress", "blue", "summer",
                     "sleeveless", "midi")
WinterShirt == Product(3, 4, "male", "top", "shirts", "shirt", "white", "winter",
                       "full sleeve", "N/A")
UnisexHat == Product(4, 7, "unisex", "accessory", "accessories", "hat", "black",
                     "all-season", "N/A", "N/A")
Sneakers == Product(5, 9, "male", "footwear", "footwear", "sneakers", "red", "spring",
                    "N/A", "N/A")

Catalogs ==
    { << >>,
      << RedDress, BlueDress, WinterShirt, UnisexHat, Sneakers >>,
      << BlueDress, UnisexHat >>,
      << Sneakers >> }

(***************************************************************************)
(* State                                                                   *)
(***************************************************************************)
VARIABLES
    product_collection, \* module level: "ok", or None when the connection failed
    store,              \* the records of the collection
    pc,                 \* where the request being served stands
    request,            \* the POST body being served
    user_query,         \* find_apparel_api / find_apparel: user_query
    filters,            \* the eight filter arguments of find_apparel
    query_embedding,    \* find_apparel: query_embedding
    current_filters,    \* find_apparel: current_filters
    found_products,     \* find_apparel: found_products
    search_results,     \* the value find_apparel returns
    response,           \* the HTTP response
    calls,              \* the outbound calls of this request, in order
    previous,           \* what the search before this one was given and did
    parked              \* the frame of a handler thread that is not running

vars == << product_collection, store, pc, request, user_query, filters, query_embedding,
           current_filters, found_products, search_results, response, calls,
           previous, parked >>

NoResponse == [status |-> 0, products |-> << >>, message |-> None, error |-> None]
NoResults == [products |-> << >>, message |-> None]

Init ==
    /\ \/ product_collection = "ok" /\ store \in Catalogs
       \/ product_collection = None /\ store = << >>
    /\ pc = "idle"
    /\ request = [body |-> "empty", user_query |-> None, filters_shape |-> "absent",
                  filters |-> NoFilters]
    /\ user_query = None
    /\ filters = NoFilters
    /\ query_embedding = << >>
    /\ current_filters = NoFilter
    /\ found_products = << >>
    /\ search_results = NoResults
    /\ response = NoResponse
    /\ calls = << >>
    /\ previous = << >>
    /\ parked = << >>

(***************************************************************************)
(* Outbound calls, as a test double of the provider and the store would    *)
(* record them                                                             *)
(***************************************************************************)
EmbedCall(text, raised) ==
    [api |-> "embed", stage |-> 0, input |-> text, embedding |-> << >>,
     where |-> NoFilter, n_results |-> 0, raised |-> raised, returned |-> << >>]

QueryCall(n, e, where, raised, metas) ==
    [api |-> "query", stage |-> n, input |-> None, embedding |-> e,
     where |-> where, n_results |-> N_RESULTS, raised |-> raised, returned |-> metas]

\* Mutant of Failed: the error text is lost.
Failed_NoMessage(msg) == [products |-> << >>, message |-> None]

Found(metas) == [products |-> metas, message |-> None]
Failed(msg) == [products |-> << >>, message |-> msg]

StageErrorMessage(n) ==
    CASE n = 1 -> "Error in Stage 1 search"
      [] n = 2 -> "Error in Stage 2 search"
      [] n = 3 -> "Error in Stage 3 search"

(***************************************************************************)
(* find_apparel_api                                                        *)
(***************************************************************************)
\* Flask hands a POST /api/find_apparel to the handler.
ReceiveRequest ==
    /\ pc = "idle"
    /\ \E r \in Requests : request' = r
    /\ pc' = "api"
    /\ UNCHANGED << previous, parked, product_collection, store, user_query, filters, query_embedding,
                    current_filters, found_products, search_results, response, calls >>

ErrorResponse(code, text) ==
    [status |-> code, products |-> << >>, message |-> None, error |-> text]

\* The handler up to the call of find_apparel: every early return and the
\* outer except.
Respond(resp) ==
    /\ response' = resp
    /\ pc' = "responded"
    /\ UNCHANGED << user_query, filters >>

CallFindApparel(q, f) ==
    /\ user_query' = q
    /\ filters' = f
    /\ pc' = "find"
    /\ UNCHANGED response

\* Mutant of ApiDispatch: the check of user_query is missing.
ApiDispatch_NoQueryCheck(r) ==
    CASE r.body = "not_json"   -> Respond(ErrorResponse(500, "An internal server error occurred"))
      [] r.body = "empty"      -> Respond(ErrorResponse(400, "Request must be JSON"))
      [] r.body = "no_key"     -> Respond(ErrorResponse(400, "Missing 'apparel_search_data' key"))
      [] r.body = "bad_string" -> Respond(ErrorResponse(400, "Failed to parse 'apparel_search_data' as JSON"))
      [] r.body = "not_dict"   -> Respond(ErrorResponse(500, "An internal server error occurred"))
      [] r.body = "args" ->
           IF r.filters_shape = "null"
           THEN Respond(ErrorResponse(500, "An internal server error occurred"))
           ELSE CallFindApparel(r.user_query,
                                IF r.filters_shape = "absent" THEN NoFilters ELSE r.filters)

ApiDispatch(r) ==
    CASE r.body = "not_json"   -> Respond(ErrorResponse(500, "An internal server error occurred"))
      [] r.body = "empty"      -> Respond(ErrorResponse(400, "Request must be JSON"))
      [] r.body = "no_key"     -> Respond(ErrorResponse(400, "Missing 'apparel_search_data' key"))
      [] r.body = "bad_string" -> Respond(ErrorResponse(400, "Failed to parse 'apparel_search_data' as JSON"))
      [] r.body = "not_dict"   -> Respond(ErrorResponse(500, "An internal server error occurred"))
      [] r.body = "args" ->
           IF ~Truthy(r.user_query)
           THEN Respond(ErrorResponse(400, "Missing 'user_query' in parsed arguments"))
           ELSE IF r.filters_shape = "null"
                THEN Respond(ErrorResponse(500, "An internal server error occurred"))
                ELSE CallFindApparel(r.user_query,
                                     IF r.filters_shape = "absent" THEN NoFilters ELSE r.filters)

find_apparel_api ==
    /\ pc = "api"
    /\ ApiDispatch(request)
    /\ UNCHANGED << previous, parked, product_collection, store, request, query_embedding, current_filters,
                    found_products, search_results, calls >>

\* return jsonify(search_results), 200
ApiReturn ==
    /\ pc = "ret"
    /\ response' = [status |-> 200, products |-> search_results.products,
                    message |-> search_results.message, error |-> None]
    /\ pc' = "responded"
    /\ UNCHANGED << previous, parked, product_collection, store, request, user_query, filters,
                    query_embedding, current_filters, found_products, search_results,
                    calls >>

(***************************************************************************)
(* find_apparel                                                            *)
(***************************************************************************)
\* Mutant of CollectionCheck: the guard on product_collection is missing.
CollectionCheck_Missing ==
    /\ search_results' = search_results
    /\ pc' = "embed"

\* Mutant of CollectionCheck: a module-level memo of the last search answers a
\* repeated search from memory.
CollectionCheck_Memoised ==
    IF product_collection = None
    THEN /\ search_results' = Failed("ChromaDB not initialized. Please run populate_chroma.py.")
         /\ pc' = "ret"
    ELSE IF previous # << >> /\ previous[1].user_query = user_query
               /\ previous[1].filters = filters
         THEN /\ search_results' = previous[1].search_results
              /\ pc' = "ret"
         ELSE /\ search_results' = search_results
              /\ pc' = "embed"

\* The collection check at the top of find_apparel.
CollectionCheck ==
    IF product_collection = None
    THEN /\ search_results' = Failed("ChromaDB not initialized. Please run populate_chroma.py.")
         /\ pc' = "ret"
    ELSE /\ search_results' = search_results
         /\ pc' = "embed"

\* Mutant of find_apparel: a missing collection is connected to on first use.
find_apparel_LazyInit ==
    /\ pc = "find"
    /\ product_collection' = "ok"
    /\ search_results' = search_results
    /\ pc' = "embed"
    /\ found_products' = << >>
    /\ UNCHANGED << previous, parked, store, request, user_query, filters,
                    query_embedding, current_filters, response, calls >>

find_apparel ==
    /\ pc = "find"
    /\ CollectionCheck
    /\ found_products' = << >>
    /\ UNCHANGED << previous, parked, product_collection, store, request, user_query, filters,
                    query_embedding, current_filters, response, calls >>

\* Mutant of EmbedResult: a failed embedding call falls back to the embedding
\* of the empty text and the search goes on.
EmbedResult_FallsBack(raised) ==
    /\ calls' = Append(calls, EmbedCall(user_query, raised))
    /\ query_embedding' = IF raised THEN Embedding("") ELSE Embedding(user_query)
    /\ pc' = "stage1"
    /\ UNCHANGED search_results

\* client.embeddings.create and its except branch.
EmbedResult(raised) ==
    /\ calls' = Append(calls, EmbedCall(user_query, raised))
    /\ IF raised
       THEN /\ search_results' = Failed("Error processing query")
            /\ pc' = "ret"
            /\ UNCHANGED query_embedding
       ELSE /\ query_embedding' = Embedding(user_query)
            /\ pc' = "stage1"
            /\ UNCHANGED search_results

GetQueryEmbedding ==
    /\ pc = "embed"
    /\ \E raised \in BOOLEAN : EmbedResult(raised)
    /\ UNCHANGED << previous, parked, product_collection, store, request, user_query, filters,
                    current_filters, found_products, response >>

\* Mutant of StageQuery: a non-empty list does not end the search.
StageQuery_NoShortCircuit(n, cf, raised, next) ==
    LET metas == IF raised THEN << >>
                 ELSE QueryMetadatas(store, query_embedding, N_RESULTS, cf)
    IN /\ calls' = Append(calls, QueryCall(n, query_embedding, cf, raised, metas))
       /\ IF raised
          THEN /\ search_results' = Failed(StageErrorMessage(n))
               /\ pc' = "ret"
               /\ UNCHANGED found_products
          ELSE /\ found_products' = metas
               /\ search_results' = search_results
               /\ pc' = next

\* Mutant of StageQuery: the except branch logs and goes on to the next stage.
StageQuery_ErrorFallsThrough(n, cf, raised, next) ==
    LET metas == IF raised THEN << >>
                 ELSE QueryMetadatas(store, query_embedding, N_RESULTS, cf)
    IN /\ calls' = Append(calls, QueryCall(n, query_embedding, cf, raised, metas))
       /\ IF raised
          THEN /\ search_results' = search_results
               /\ pc' = next
               /\ UNCHANGED found_products
          ELSE /\ found_products' = metas
               /\ IF metas # << >>
                  THEN /\ search_results' = Found(metas)
                       /\ pc' = "ret"
                  ELSE /\ search_results' = search_results
                       /\ pc' = next

\* Mutant of StageQuery: every stage computes the embedding again before it
\* queries the store.
StageQuery_ReEmbeds(n, cf, raised, next) ==
    LET metas == IF raised THEN << >>
                 ELSE QueryMetadatas(store, Embedding(user_query), N_RESULTS, cf)
    IN /\ calls' = calls \o << EmbedCall(user_query, FALSE),
                               QueryCall(n, Embedding(user_query), cf, raised, metas) >>
       /\ IF raised
          THEN /\ search_results' = Failed(StageErrorMessage(n))
               /\ pc' = "ret"
               /\ UNCHANGED found_products
          ELSE /\ found_products' = metas
               /\ IF metas # << >>
                  THEN /\ search_results' = Found(metas)
                       /\ pc' = "ret"
                  ELSE /\ search_results' = search_results
                       /\ pc' = next

\* One stage's try block: the store query, the extraction of the metadata
\* list, the return on a non-empty list, the except branch.  next is where
\* the function goes on when the list is empty.
StageQuery(n, cf, raised, next) ==
    LET metas == IF raised THEN << >>
                 ELSE QueryMetadatas(store, query_embedding, N_RESULTS, cf)
    IN /\ calls' = Append(calls, QueryCall(n, query_embedding, cf, raised, metas))
       /\ IF raised
          THEN /\ search_results' = Failed(StageErrorMessage(n))
               /\ pc' = "ret"
               /\ UNCHANGED found_products
          ELSE /\ found_products' = metas
               /\ IF metas # << >>
                  THEN /\ search_results' = Found(metas)
                       /\ pc' = "ret"
                  ELSE /\ search_results' = search_results
                       /\ pc' = next

StageSkip(next) ==
    /\ pc' = next
    /\ UNCHANGED << calls, found_products, search_results >>

Stage1Filters(f) ==
    get_chromadb_filters(f.gender, f.master_category, f.subcategory, f.color, f.season,
                         f.sleeve_length, f.item_length, f.category)

\* Mutant of Stage2Filters: stage 2 drops the subcategory and the item length
\* and keeps the color.
Stage2Filters_KeepsColor(f) ==
    get_chromadb_filters(f.gender, f.master_category, None, f.color, f.season,
                         f.sleeve_length, None, f.category)

\* Mutant of Stage2Filters: stage 2 drops the season with the soft filters.
Stage2Filters_DropsSeason(f) ==
    get_chromadb_filters(f.gender, f.master_category, None, None, None,
                         f.sleeve_length, None, f.category)

Stage2Filters(f) ==
    get_chromadb_filters(f.gender, f.master_category, None, None, f.season,
                         f.sleeve_length, None, f.category)

\* Mutant of Stage3Filters: stage 3 keeps the season and drops the gender.
Stage3Filters_SeasonOnly(f) ==
    get_chromadb_filters(None, None, None, None, f.season, None, None, None)

\* Mutant of Stage3Filters: stage 3 still carries the category.
Stage3Filters_KeepsCategory(f) ==
    get_chromadb_filters(f.gender, None, None, None, f.season, None, None, f.category)

\* Mutant of Stage3Filters: stage 3 takes the color up again.
Stage3Filters_KeepsColor(f) ==
    get_chromadb_filters(f.gender, None, None, f.color, f.season, None, None, None)

Stage3Filters(f) ==
    get_chromadb_filters(f.gender, None, None, None, f.season, None, None, None)

\* Mutant of Stage2Proceeds: stage 2 is never skipped.
Stage2Proceeds_Always(cf, f) == TRUE

\* if current_filters or (not gender and not season and not master_category and not category)
Stage2Proceeds(cf, f) ==
    \/ NonEmptyFilter(cf)
    \/ (~Truthy(f.gender) /\ ~Truthy(f.season) /\ ~Truthy(f.master_category)
          /\ ~Truthy(f.category))

\* Mutants of Stage3Proceeds: stage 3 is always skipped / never skipped.
Stage3Proceeds_Never(cf) == FALSE

Stage3Proceeds_Always(cf) == TRUE

\* if current_filters
Stage3Proceeds(cf) == NonEmptyFilter(cf)

Stage1 ==
    /\ pc = "stage1"
    /\ current_filters' = Stage1Filters(filters)
    /\ \E raised \in BOOLEAN : StageQuery(1, current_filters', raised, "stage2")
    /\ UNCHANGED << previous, parked, product_collection, store, request, user_query, filters,
                    query_embedding, response >>

Stage2 ==
    /\ pc = "stage2"
    /\ current_filters' = Stage2Filters(filters)
    /\ IF Stage2Proceeds(current_filters', filters)
       THEN \E raised \in BOOLEAN : StageQuery(2, current_filters', raised, "stage3")
       ELSE StageSkip("stage3")
    /\ UNCHANGED << previous, parked, product_collection, store, request, user_query, filters,
                    query_embedding, response >>

\* Stage 3 and the final return {"products": []}.
Stage3 ==
    /\ pc = "stage3"
    /\ current_filters' = Stage3Filters(filters)
    /\ IF Stage3Proceeds(current_filters')
       THEN \E raised \in BOOLEAN : StageQuery(3, current_filters', raised, "end")
       ELSE StageSkip("end")
    /\ UNCHANGED << previous, parked, product_collection, store, request, user_query, filters,
                    query_embedding, response >>

ReturnEmpty ==
    /\ pc = "end"
    /\ search_results' = NoResults
    /\ pc' = "ret"
    /\ UNCHANGED << previous, parked, product_collection, store, request, user_query, filters,
                    query_embedding, current_filters, found_products, response, calls >>

\* The response is sent and the handler's frame (its locals) is gone; the
\* server waits for the next request.
HandlerExit ==
    /\ pc = "responded"
    /\ pc' = "idle"
    /\ request' = [body |-> "empty", user_query |-> None, filters_shape |-> "absent",
                   filters |-> NoFilters]
    /\ user_query' = None
    /\ filters' = NoFilters
    /\ query_embedding' = << >>
    /\ current_filters' = NoFilter
    /\ found_products' = << >>
    /\ search_results' = NoResults
    /\ response' = NoResponse
    /\ calls' = << >>
    /\ UNCHANGED << previous, parked, product_collection, store >>

(***************************************************************************)
(* The filter compiler on its own: the three calls of get_chromadb_filters *)
(* that find_apparel makes, for a wider range of filter values             *)
(***************************************************************************)
CompilerGenderInputs == {None, "Male", "FEMALE", "UNISEX", "kids", "N/A"}
CompilerSeasonInputs == {None, "Summer", "ALL-SEASON", "all-season", "monsoon", "N/A"}
CompilerMasterCategoryInputs == {None, "Top", "outerwear", "N/A"}
CompilerCategoryInputs == {None, "Dresses", "N/A"}
CompilerSubcategoryInputs == {None, "Dress", "N/A", "n/a"}
CompilerColorInputs == {None, "", "Red", "teal-ish", "N/A"}
CompilerSleeveLengthInputs == {None, "Sleeveless", "N/A"}
CompilerItemLengthInputs == {None, "Maxi", "ankle", "n/a"}

CompilerFilterRequests ==
    [gender : CompilerGenderInputs, master_category : CompilerMasterCategoryInputs,
     subcategory : CompilerSubcategoryInputs, color : CompilerColorInputs,
     season : CompilerSeasonInputs, sleeve_length : CompilerSleeveLengthInputs,
     item_length : CompilerItemLengthInputs, category : CompilerCategoryInputs]

CompilerInit ==
    /\ product_collection = "ok"
    /\ store = << >>
    /\ pc = "compile"
    /\ request = [body |-> "empty", user_query |-> None, filters_shape |-> "absent",
                  filters |-> NoFilters]
    /\ user_query = None
    /\ filters \in CompilerFilterRequests
    /\ query_embedding = << >>
    /\ current_filters = NoFilter
    /\ found_products = << >>
    /\ search_results = NoResults
    /\ response = NoResponse
    /\ calls = << >>
    /\ previous = << >>
    /\ parked = << >>

\* current_filters = get_chromadb_filters(...) of stage 1, stage 2, stage 3.
CompileStage1 ==
    /\ pc = "compile"
    /\ current_filters' = Stage1Filters(filters)
    /\ pc' = "compiled1"
    /\ UNCHANGED << previous, parked, product_collection, store, request, user_query, filters,
                    query_embedding, found_products, search_results, response, calls >>

CompileStage2 ==
    /\ pc = "compiled1"
    /\ current_filters' = Stage2Filters(filters)
    /\ pc' = "compiled2"
    /\ UNCHANGED << previous, parked, product_collection, store, request, user_query, filters,
                    query_embedding, found_products, search_results, response, calls >>

CompileStage3 ==
    /\ pc = "compiled2"
    /\ current_filters' = Stage3Filters(filters)
    /\ pc' = "compiled3"
    /\ UNCHANGED << previous, parked, product_collection, store, request, user_query, filters,
                    query_embedding, found_products, search_results, response, calls >>

CompilerNext == CompileStage1 \/ CompileStage2 \/ CompileStage3

CompilerSpec == CompilerInit /\ [][CompilerNext]_vars

(***************************************************************************)
(* The same search twice: the server answers a request, then the same      *)
(* request again, over the same store.  The embedding provider and the     *)
(* store are deterministic: a call with the arguments of an earlier call   *)
(* has the outcome of that call.                                           *)
(***************************************************************************)
NoFrame == << >>

SameArguments(a, b) ==
    /\ a.api = b.api
    /\ a.input = b.input
    /\ a.embedding = b.embedding
    /\ a.where = b.where
    /\ a.n_results = b.n_results

Deterministic(log) ==
    \A i, j \in 1..Len(log) :
        SameArguments(log[i], log[j]) =>
            log[i].raised = log[j].raised /\ log[i].returned = log[j].returned

\* The calls of the search before and of this one.
History == (IF previous = << >> THEN << >> ELSE previous[1].calls) \o calls

FirstRequest ==
    /\ previous = << >>
    /\ ReceiveRequest

\* The first response is sent; what the search was given and did is kept for
\* the comparison.
FirstExit ==
    /\ pc = "responded"
    /\ previous = << >>
    /\ previous' = << [request |-> request, user_query |-> user_query,
                       filters |-> filters, calls |-> calls,
                       search_results |-> search_results, response |-> response] >>
    /\ pc' = "idle"
    /\ request' = [body |-> "empty", user_query |-> None, filters_shape |-> "absent",
                   filters |-> NoFilters]
    /\ user_query' = None
    /\ filters' = NoFilters
    /\ query_embedding' = << >>
    /\ current_filters' = NoFilter
    /\ found_products' = << >>
    /\ search_results' = NoResults
    /\ response' = NoResponse
    /\ calls' = << >>
    /\ UNCHANGED << parked, product_collection, store >>

SecondRequest ==
    /\ pc = "idle"
    /\ previous # << >>
    /\ request' = previous[1].request
    /\ pc' = "api"
    /\ UNCHANGED << previous, parked, product_collection, store, user_query, filters,
                    query_embedding, current_filters, found_products, search_results,
                    response, calls >>

DeterministicEmbedding == GetQueryEmbedding /\ Deterministic(History')
DeterministicStage1 == Stage1 /\ Deterministic(History')
DeterministicStage2 == Stage2 /\ Deterministic(History')
DeterministicStage3 == Stage3 /\ Deterministic(History')

RepeatNext ==
    \/ FirstRequest
    \/ FirstExit
    \/ SecondRequest
    \/ find_apparel_api
    \/ find_apparel
    \/ DeterministicEmbedding
    \/ DeterministicStage1
    \/ DeterministicStage2
    \/ DeterministicStage3
    \/ ReturnEmpty
    \/ ApiReturn

RepeatSpec == Init /\ [][RepeatNext]_vars

(***************************************************************************)
(* Several requests at once: the server runs the handler on one thread per *)
(* request.  The variables of the handler are those of the running thread; *)
(* the frames of the other threads wait in parked.                         *)
(***************************************************************************)
Threads == 2

ConcQueryInputs == {"shoes", "red summer dress"}
ConcFilterRequests ==
    { NoFilters,
      [NoFilters EXCEPT !.gender = "Male", !.color = "Red", !.subcategory = "Dress"],
      [NoFilters EXCEPT !.gender = "Male", !.season = "Summer", !.master_category = "Top"] }
ConcRequests ==
    [body : {"args"}, user_query : ConcQueryInputs, filters_shape : {"dict"},
     filters : ConcFilterRequests]

\* The locals of one call of the handler and of find_apparel, and its log.
CurrentFrame ==
    [pc |-> pc, request |-> request, user_query |-> user_query, filters |-> filters,
     query_embedding |-> query_embedding, current_filters |-> current_filters,
     found_products |-> found_products, search_results |-> search_results,
     response |-> response, calls |-> calls]

IdleFrame ==
    [pc |-> "idle",
     request |-> [body |-> "empty", user_query |-> None, filters_shape |-> "absent",
                  filters |-> NoFilters],
     user_query |-> None, filters |-> NoFilters, query_embedding |-> << >>,
     current_filters |-> NoFilter, found_products |-> << >>,
     search_results |-> NoResults, response |-> NoResponse, calls |-> << >>]

ConcInit ==
    /\ product_collection = "ok"
    /\ store = << RedDress, BlueDress, WinterShirt, UnisexHat, Sneakers >>
    /\ pc = "idle"
    /\ request = IdleFrame.request
    /\ user_query = None
    /\ filters = NoFilters
    /\ query_embedding = << >>
    /\ current_filters = NoFilter
    /\ found_products = << >>
    /\ search_results = NoResults
    /\ response = NoResponse
    /\ calls = << >>
    /\ previous = << >>
    /\ parked = [i \in 1..(Threads - 1) |-> IdleFrame]

ConcReceive ==
    /\ pc = "idle"
    /\ \E r \in ConcRequests : request' = r
    /\ pc' = "api"
    /\ UNCHANGED << previous, parked, product_collection, store, user_query, filters,
                    query_embedding, current_filters, found_products, search_results,
                    response, calls >>

\* Mutant of Restore: query_embedding is a module-level name, shared by the
\* threads, and is not part of a thread's frame.
Restore_SharedEmbedding(fr) ==
    /\ pc' = fr.pc
    /\ request' = fr.request
    /\ user_query' = fr.user_query
    /\ filters' = fr.filters
    /\ query_embedding' = query_embedding
    /\ current_filters' = fr.current_filters
    /\ found_products' = fr.found_products
    /\ search_results' = fr.search_results
    /\ response' = fr.response
    /\ calls' = fr.calls

\* A thread goes on with its own locals: every name find_apparel and the
\* handler assign is local to the call.
Restore(fr) ==
    /\ pc' = fr.pc
    /\ request' = fr.request
    /\ user_query' = fr.user_query
    /\ filters' = fr.filters
    /\ query_embedding' = fr.query_embedding
    /\ current_filters' = fr.current_filters
    /\ found_products' = fr.found_products
    /\ search_results' = fr.search_results
    /\ response' = fr.response
    /\ calls' = fr.calls

\* The scheduler suspends the running thread and resumes another one.
ContextSwitch ==
    /\ \E i \in 1..Len(parked) :
          /\ parked' = [parked EXCEPT ![i] = CurrentFrame]
          /\ Restore(parked[i])
    /\ UNCHANGED << previous, product_collection, store >>

ConcNext ==
    \/ ConcReceive
    \/ ContextSwitch
    \/ find_apparel_api
    \/ find_apparel
    \/ GetQueryEmbedding
    \/ Stage1
    \/ Stage2
    \/ Stage3
    \/ ReturnEmpty
    \/ ApiReturn

ConcSpec == ConcInit /\ [][ConcNext]_vars

Next ==
    \/ ReceiveRequest
    \/ HandlerExit
    \/ find_apparel_api
    \/ find_apparel
    \/ GetQueryEmbedding
    \/ Stage1
    \/ Stage2
    \/ Stage3
    \/ ReturnEmpty
    \/ ApiReturn

Spec == Init /\ [][Next]_vars

(***************************************************************************)
(* Observations used by the properties                                     *)
(***************************************************************************)
QueryCalls == {i \in 1..Len(calls) : calls[i].api = "query"}
EmbedCalls == {i \in 1..Len(calls) : calls[i].api = "embed"}
StageCalls(n) == {i \in QueryCalls : calls[i].stage = n}
StageQueried(n) == StageCalls(n) # {}
\* Stage n was queried and the store answered with an empty list.
StageCameBackEmpty(n) ==
    \E i \in StageCalls(n) : ~calls[i].raised /\ calls[i].returned = << >>
SomeCallRaised == \E i \in 1..Len(calls) : calls[i].raised
\* find_apparel has returned (its value is in search_results).
SearchEnded == pc = "ret" \/ (pc = "responded" /\ response.status = 200)
\* The function is past the stage-2 block.
PastStage2 == pc \in {"stage3", "end", "ret", "responded"}

ValidGender(f) == Truthy(f.gender) /\ Lower(f.gender) \in {"male", "female", "unisex"}
ValidSeason(f) ==
    Truthy(f.season)
      /\ Lower(f.season) \in {"summer", "winter", "spring", "fall", "all-season"}
ValidMasterCategory(f) ==
    Truthy(f.master_category) /\ Lower(f.master_category) \in VALID_MASTER_CATEGORIES
ValidCategory(f) == Truthy(f.category) /\ Lower(f.category) \in VALID_CATEGORIES
ValidSleeveLength(f) ==
    Truthy(f.sleeve_length) /\ Lower(f.sleeve_length) \in VALID_SLEEVE_LENGTHS

\* The clauses a where-document is the conjunction of.
Clauses(where) ==
    CASE where.op = "{}"   -> {}
      [] where.op = "$and" -> {where.args[i] : i \in 1..Len(where.args)}
      [] OTHER             -> {where}

\* The equality leaves of a where-document.
Leaves(where) ==
    UNION {IF cl.op = "$or" THEN cl.alts ELSE {cl} : cl \in Clauses(where)}

(***************************************************************************)
(* C1 - short-circuit                                                      *)
(***************************************************************************)
\* C1: a store query that came back with at least one metadata record is the
\* last outbound call of its search, and find_apparel has returned exactly
\* that list (which the endpoint then sends).
C1_ShortCircuit ==
    \A i \in QueryCalls :
        (~calls[i].raised /\ calls[i].returned # << >>)
        => /\ i = Len(calls)
           /\ SearchEnded
           /\ search_results = [products |-> calls[i].returned, message |-> None]
           /\ (pc = "responded" => response.products = calls[i].returned)

\* Stage 1 came back with three records; stages 2 and 3 were not queried.
C1_Witness ==
    /\ pc = "responded"
    /\ \E i \in StageCalls(1) : Len(calls[i].returned) = 3
    /\ ~StageQueried(2) /\ ~StageQueried(3)
    /\ Len(response.products) = 3

(***************************************************************************)
(* C2 - when stage 2 runs                                                  *)
(***************************************************************************)
\* C2 (as claimed): whenever stage 1 came back empty, the stage-2 query is
\* issued.
C2_Stage2AlwaysRuns ==
    (PastStage2 /\ StageCameBackEmpty(1)) => StageQueried(2)

\* C2 (amended): after an empty stage 1, the stage-2 query is issued exactly
\* when one of gender, master_category, season, category, sleeve_length has a
\* valid value, or none of gender, master_category, season, category was
\* supplied; with an empty stage-2 predicate and one of those four supplied
\* with an invalid value, stage 2 is skipped.
C2_Stage2RunsUnlessDropped ==
    (PastStage2 /\ StageCameBackEmpty(1))
    => (StageQueried(2)
        <=> \/ ValidGender(filters) \/ ValidMasterCategory(filters)
            \/ ValidSeason(filters) \/ ValidCategory(filters)
            \/ ValidSleeveLength(filters)
            \/ (filters.gender \in {None, ""} /\ filters.master_category \in {None, ""}
                  /\ filters.season \in {None, ""} /\ filters.category \in {None, ""}))

\* Stage 1 came back empty, gender was supplied with an unknown value, the
\* stage-2 predicate is empty, and stage 2 was skipped.
C2_Witness ==
    /\ pc = "stage3"
    /\ StageCameBackEmpty(1)
    /\ filters.gender = "kids"
    /\ current_filters = NoFilter
    /\ ~StageQueried(2)

(***************************************************************************)
(* C3 - when the result is empty                                           *)
(***************************************************************************)
NothingFailed == product_collection # None /\ ~SomeCallRaised
EmptyResult == SearchEnded /\ search_results.products = << >>

\* C3 (as claimed): an empty product list without a failure means all three
\* stages were queried and each came back empty.
C3_EmptyOnlyAfterThreeStages ==
    (EmptyResult /\ NothingFailed)
    => StageCameBackEmpty(1) /\ StageCameBackEmpty(2) /\ StageCameBackEmpty(3)

\* C3 (amended): an empty product list without a failure means every stage
\* that was not skipped was queried and came back empty: stage 1 always,
\* stage 2 unless its predicate is empty while one of gender,
\* master_category, season, category was supplied, stage 3 whenever gender or
\* season is valid.
C3_EmptyOnlyAfterEveryStageRun ==
    (EmptyResult /\ NothingFailed)
    => /\ StageCameBackEmpty(1)
       /\ (\/ ValidGender(filters) \/ ValidMasterCategory(filters)
           \/ ValidSeason(filters) \/ ValidCategory(filters)
           \/ ValidSleeveLength(filters)
           \/ (filters.gender \in {None, ""} /\ filters.master_category \in {None, ""}
                 /\ filters.season \in {None, ""} /\ filters.category \in {None, ""}))
          => StageCameBackEmpty(2)
       /\ (ValidGender(filters) \/ ValidSeason(filters)) => StageCameBackEmpty(3)

\* An empty answer after three empty stages, over a store that is not empty.
C3_Witness ==
    /\ pc = "responded"
    /\ response.status = 200 /\ response.products = << >> /\ response.message = None
    /\ StageCameBackEmpty(1) /\ StageCameBackEmpty(2) /\ StageCameBackEmpty(3)
    /\ store # << >>

(***************************************************************************)
(* C4 - a failing stage ends the search                                    *)
(***************************************************************************)
\* C4: a store query that raised is the last outbound call of its search,
\* and find_apparel has returned the error outcome that names its stage.
C4_StageFailureEndsSearch ==
    \A i \in QueryCalls :
        calls[i].raised
        => /\ i = Len(calls)
           /\ SearchEnded
           /\ search_results.products = << >>
           /\ search_results.message =
                (CASE calls[i].stage = 1 -> "Error in Stage 1 search"
                   [] calls[i].stage = 2 -> "Error in Stage 2 search"
                   [] calls[i].stage = 3 -> "Error in Stage 3 search")

\* The stage-2 query raised after an empty stage 1; stage 3 was not queried.
C4_Witness ==
    /\ pc = "ret"
    /\ StageCameBackEmpty(1)
    /\ \E i \in StageCalls(2) : calls[i].raised
    /\ ~StageQueried(3)
    /\ ValidGender(filters)
    /\ search_results.message = "Error in Stage 2 search"

(***************************************************************************)
(* C5 - hard filters are in every query                                    *)
(***************************************************************************)
\* C5: every store query of a search, at any stage, carries the compiled
\* gender clause when the gender supplied is valid and the compiled season
\* clause when the season supplied is valid.
C5_HardFiltersNeverRelaxed ==
    \A i \in QueryCalls :
        /\ ValidGender(filters)
           => GenderFilters(filters.gender)[1] \in Clauses(calls[i].where)
        /\ ValidSeason(filters)
           => SeasonFilters(filters.season)[1] \in Clauses(calls[i].where)

\* A stage-3 query was issued for a request whose gender and season are both
\* valid and that also carried soft filters.
C5_Witness ==
    /\ StageQueried(3)
    /\ ValidGender(filters) /\ ValidSeason(filters)
    /\ filters.color = "Red" /\ filters.master_category = "Top"
    /\ Cardinality(Clauses(calls[Len(calls)].where)) = 2

(***************************************************************************)
(* C6 - when stage 3 runs                                                  *)
(***************************************************************************)
\* C6: once the search has ended, the stage-3 query was issued exactly when
\* stage 1 came back empty, stage 2 was skipped or came back empty, and
\* gender or season is valid; with neither valid, only stage 1 and possibly
\* stage 2 were queried.
C6_Stage3IffHardFilter ==
    (pc \in {"end", "ret", "responded"} /\ product_collection # None)
    => /\ StageQueried(3)
          <=> /\ StageCameBackEmpty(1)
              /\ (StageQueried(2) => StageCameBackEmpty(2))
              /\ (ValidGender(filters) \/ ValidSeason(filters))
       /\ (~ValidGender(filters) /\ ~ValidSeason(filters))
          => \A i \in QueryCalls : calls[i].stage \in {1, 2}

\* No filter was supplied: stages 1 and 2 were queried and came back empty,
\* stage 3 was skipped.
C6_Witness ==
    /\ pc = "end"
    /\ filters = NoFilters
    /\ StageCameBackEmpty(1) /\ StageCameBackEmpty(2)
    /\ ~StageQueried(3)

(***************************************************************************)
(* C7 - season "all-season"                                                *)
(***************************************************************************)
AllSeasonAsked == Truthy(filters.season) /\ Lower(filters.season) = "all-season"
SeasonLeaves(where) == {l \in Leaves(where) : l.field = "season"}

C9_StoreUnavailable ==
    product_collection = None
    => /\ calls = << >>
       /\ pc \notin {"embed", "stage1", "stage2", "stage3", "end"}
       /\ SearchEnded
          => /\ search_results.products = << >>
             /\ search_results.message
                  = "ChromaDB not initialized. Please run populate_chroma.py."

\* A search over an unset collection was answered.
C9_Witness ==
    /\ product_collection = None
    /\ pc = "responded"
    /\ response.status = 200
    /\ response.message # None
    /\ filters.gender = "Male"

(***************************************************************************)
(* C10 - missing query                                                     *)
(***************************************************************************)
\* C10: a request whose arguments carry no user_query, or an empty one, is
\* answered with status 400 whatever its filters are, and a request answered
\* with status 400 has made no outbound call.
C10_MissingQueryRejected ==
    /\ (pc = "responded" /\ request.body = "args" /\ request.user_query \in {None, ""})
       => response.status = 400
    /\ response.status = 400 => calls = << >>
    /\ (request.body = "args" /\ request.user_query \in {None, ""}) => calls = << >>

\* An empty query with a valid gender filter was answered 400.
C10_Witness ==
    /\ pc = "responded"
    /\ request.user_query = ""
    /\ request.filters.gender = "Male"
    /\ response.status = 400
    /\ product_collection = "ok"

(***************************************************************************)
(* C11 - one embedding call, then at most three sequential queries         *)
(***************************************************************************)
\* C11: the outbound calls of a search are at most one embedding call, which
\* comes first, and at most three store queries; every query asks for 10
\* results and carries the embedding of the search's query text, the one the
\* embedding call computed; the queries are in stage order, and a query is
\* issued only after the one before it has come back (empty, without raising).
C11_OneEmbeddingThreeQueries ==
    /\ Cardinality(EmbedCalls) <= 1
    /\ Cardinality(QueryCalls) <= 3
    /\ \A i \in EmbedCalls : i = 1 /\ calls[i].input = user_query
    /\ \A i \in QueryCalls :
          /\ 1 \in EmbedCalls /\ ~calls[1].raised
          /\ calls[i].n_results = 10
          /\ calls[i].embedding = Embedding(calls[1].input)
          /\ calls[i].embedding = query_embedding
    /\ \A i, j \in QueryCalls :
          i < j => /\ calls[i].stage < calls[j].stage
                   /\ ~calls[i].raised /\ calls[i].returned = << >>

\* A search that issued the embedding call and all three stage queries.
C11_Witness ==
    /\ pc = "ret"
    /\ Len(calls) = 4
    /\ calls[1].api = "embed"
    /\ calls[2].stage = 1 /\ calls[3].stage = 2 /\ calls[4].stage = 3
    /\ Len(calls[4].returned) = 3

(***************************************************************************)
(* C16 - a failing embedding call ends the search                          *)
(***************************************************************************)
\* C16: an embedding call that raised is the only outbound call of its
\* search (it is not repeated and no store query follows), and find_apparel
\* has returned the embedding-error outcome.
C16_EmbeddingFailureEndsSearch ==
    \A i \in EmbedCalls :
        calls[i].raised
        => /\ Len(calls) = 1
           /\ SearchEnded
           /\ search_results = [products |-> << >>, message |-> "Error processing query"]

\* The embedding call raised for a search with filters over a store that
\* holds matching records.
C16_Witness ==
    /\ pc = "ret"
    /\ Len(calls) = 1 /\ calls[1].api = "embed" /\ calls[1].raised
    /\ filters.gender = "Male"
    /\ Len(store) = 5

(***************************************************************************)
(* C14 - what each stage's predicate is made of                            *)
(***************************************************************************)
FieldsOf(where) == {l.field : l \in Leaves(where)}

\* C14: the stage-1 query carries the compilation of all eight fields, the
\* stage-2 query that of the request with subcategory, color and item_length
\* unset, the stage-3 query that of gender and season alone; no stage-2 query
\* constrains subcategory, color or item_length and no stage-3 query
\* constrains a field other than gender and season.
C14_StagePredicates ==
    \A i \in QueryCalls :
        /\ calls[i].stage = 1
           => calls[i].where =
                get_chromadb_filters(filters.gender, filters.master_category,
                                     filters.subcategory, filters.color, filters.season,
                                     filters.sleeve_length, filters.item_length,
                                     filters.category)
        /\ calls[i].stage = 2
           => /\ calls[i].where =
                   get_chromadb_filters(filters.gender, filters.master_category, None, None,
                                        filters.season, filters.sleeve_length, None,
                                        filters.category)
              /\ FieldsOf(calls[i].where) \cap {"subcategory", "color", "item_length"} = {}
        /\ calls[i].stage = 3
           => /\ calls[i].where =
                   get_chromadb_filters(filters.gender, None, None, None, filters.season,
                                        None, None, None)
              /\ FieldsOf(calls[i].where) \subseteq {"gender", "season"}

\* All eight fields were supplied with valid values; the three stages were
\* queried with eight, five and two constrained fields.
C14_Witness ==
    /\ Len(calls) = 4
    /\ Cardinality(FieldsOf(calls[2].where)) = 8
    /\ FieldsOf(calls[3].where)
         = {"gender", "master_category", "season", "category", "sleeve_length"}
    /\ FieldsOf(calls[4].where) = {"gender", "season"}

(***************************************************************************)
(* Observations on the compiler's output                                   *)
(***************************************************************************)
ValidSubcategory(f) ==
    Truthy(f.subcategory) /\ Lower(f.subcategory) \in (VALID_SUBCATEGORIES \ {"N/A"})
ValidItemLength(f) ==
    Truthy(f.item_length) /\ Lower(f.item_length) \in (VALID_ITEM_LENGTHS \ {"N/A"})
HasColor(f) == f.color \notin {None, ""}

\* The fields of a request that hold a value the compiler turns into a clause.
ContributingFields(f) ==
    {x \in {"gender"} : ValidGender(f)}
      \cup {x \in {"master_category"} : ValidMasterCategory(f)}
      \cup {x \in {"category"} : ValidCategory(f)}
      \cup {x \in {"subcategory"} : ValidSubcategory(f)}
      \cup {x \in {"color"} : HasColor(f)}
      \cup {x \in {"season"} : ValidSeason(f)}
      \cup {x \in {"sleeve_length"} : ValidSleeveLength(f)}
      \cup {x \in {"item_length"} : ValidItemLength(f)}

\* The fields a clause constrains.
ClauseFields(cl) == IF cl.op = "$or" THEN {l.field : l \in cl.alts} ELSE {cl.field}

\* current_filters holds a predicate the compiler has just produced.
Compiled == pc \in {"compiled1", "compiled2", "compiled3"}

\* The fields handed to the compiler by the call whose result current_filters
\* holds.
FieldsPassed ==
    CASE pc = "compiled1" -> {"gender", "master_category", "category", "subcategory",
                              "color", "season", "sleeve_length", "item_length"}
      [] pc = "compiled2" -> {"gender", "master_category", "category", "season",
                              "sleeve_length"}
      [] pc = "compiled3" -> {"gender", "season"}
      [] OTHER            -> {}

(***************************************************************************)
(* C12 - gender                                                            *)
(***************************************************************************)
GenderClauses(where) == {cl \in Clauses(where) : "gender" \in ClauseFields(cl)}
StoredProducts == {RedDress, BlueDress, WinterShirt, UnisexHat, Sneakers}

\* C12: in any letter case, gender male or female compiles to the disjunction
\* of gender = value and gender = unisex, which holds exactly of the records
\* whose gender is the value or unisex; gender unisex compiles to
\* gender = unisex alone; any other value gives no gender clause.
C12_GenderCompilation ==
    Compiled
    => LET g == filters.gender
           lg == IF g \in {None, ""} THEN None ELSE Lower(g)
       IN /\ lg \in {"male", "female"}
             => /\ GenderClauses(current_filters)
                     = {[op |-> "$or", field |-> None, value |-> None, args |-> << >>,
                         alts |-> {[op |-> "eq", field |-> "gender", value |-> lg,
                                    alts |-> {}, args |-> << >>],
                                   [op |-> "eq", field |-> "gender", value |-> "unisex",
                                    alts |-> {}, args |-> << >>]}]}
                /\ \A rec \in StoredProducts :
                      (\A cl \in GenderClauses(current_filters) : ClauseHolds(rec, cl))
                        <=> rec.gender \in {lg, "unisex"}
          /\ lg = "unisex"
             => /\ GenderClauses(current_filters)
                     = {[op |-> "eq", field |-> "gender", value |-> "unisex",
                         alts |-> {}, args |-> << >>]}
                /\ \A rec \in StoredProducts :
                      (\A cl \in GenderClauses(current_filters) : ClauseHolds(rec, cl))
                        <=> rec.gender = "unisex"
          /\ lg \notin {"male", "female", "unisex"}
             => GenderClauses(current_filters) = {}

\* Gender "FEMALE" alone compiled, at stage 3, to female-or-unisex.
C12_Witness ==
    /\ pc = "compiled3"
    /\ filters.gender = "FEMALE"
    /\ current_filters.op = "$or"
    /\ {l.value : l \in current_filters.alts} = {"female", "unisex"}

(***************************************************************************)
(* C13 - only valid, lower-cased values reach the predicate                *)
(***************************************************************************)
\* The values a leaf may carry for a valid supplied value lv of a field.
LeafValuesFor(field, lv) ==
    IF field = "gender" /\ lv \in {"male", "female"}
    THEN {lv, "unisex"}
    ELSE IF field = "season" /\ lv = "all-season"
         THEN VALID_SEASONS
         ELSE {lv}

FieldHasValidValue(f, field) == field \in ContributingFields(f)

\* C13 (as claimed): every leaf of a compiled predicate names a field whose
\* supplied value is valid and carries that value lower-cased; the N/A
\* sentinel never appears as a leaf value.
C13_OnlyValidValuesNoSentinel ==
    Compiled
    => \A l \in Leaves(current_filters) :
          /\ FieldHasValidValue(filters, l.field)
          /\ l.value \in LeafValuesFor(l.field, Lower(filters[l.field]))
          /\ l.value \notin {"n/a", "N/A"}

\* C13 (amended): every leaf on one of the seven validated fields names a
\* field whose supplied value is valid, carries that value lower-cased and is
\* never the N/A sentinel or an unknown value; a leaf on color carries
\* whatever non-empty string was supplied, lower-cased, the N/A sentinel
\* included; and the compiler yields a predicate for every request.
C13_ValidatedFieldsOnlyValidValues ==
    /\ Compiled
       => \A l \in Leaves(current_filters) :
             /\ FieldHasValidValue(filters, l.field)
             /\ l.value \in LeafValuesFor(l.field, Lower(filters[l.field]))
             /\ l.field # "color"
                => /\ l.value \notin {"n/a", "N/A"}
                   /\ l.value \in VALID_GENDERS \cup VALID_MASTER_CATEGORIES
                        \cup VALID_CATEGORIES \cup VALID_SUBCATEGORIES \cup VALID_SEASONS
                        \cup VALID_SLEEVE_LENGTHS \cup VALID_ITEM_LENGTHS
    /\ pc = "compile" => ENABLED CompileStage1
    /\ pc = "compiled1" => ENABLED CompileStage2
    /\ pc = "compiled2" => ENABLED CompileStage3

\* A request whose every field holds an unknown value or the sentinel, the
\* color included: the color alone reached the predicate.
C13_Witness ==
    /\ pc = "compiled1"
    /\ filters = [gender |-> "kids", master_category |-> "N/A", subcategory |-> "N/A",
                  color |-> "N/A", season |-> "monsoon", sleeve_length |-> "N/A",
                  item_length |-> "ankle", category |-> "N/A"]
    /\ Leaves(current_filters) = {EqLeaf("color", "n/a")}

(***************************************************************************)
(* C15 - how the clauses are combined                                      *)
(***************************************************************************)
\* C15: with no contributing field the compiler returns the empty predicate;
\* with one, that field's clause alone, not wrapped in "$and"; with two or
\* more, "$and" over exactly one clause per contributing field.
C15_Combination ==
    Compiled
    => LET K == ContributingFields(filters) \cap FieldsPassed
       IN /\ K = {} => current_filters.op = "{}"
          /\ Cardinality(K) = 1
             => /\ current_filters.op \in {"eq", "$eq", "$or"}
                /\ ClauseFields(current_filters) = K
          /\ Cardinality(K) >= 2
             => /\ current_filters.op = "$and"
                /\ Len(current_filters.args) = Cardinality(K)
                /\ \A x \in K :
                      \E i \in 1..Len(current_filters.args) :
                          ClauseFields(current_filters.args[i]) = {x}
                /\ \A i \in 1..Len(current_filters.args) :
                      current_filters.args[i].op \in {"eq", "$eq", "$or"}

\* A request with three contributing fields whose stage-3 predicate is the
\* season clause alone.
C15_Witness ==
    /\ pc = "compiled3"
    /\ Cardinality(ContributingFields(filters)) = 3
    /\ ValidSeason(filters) /\ HasColor(filters) /\ ValidItemLength(filters)
    /\ current_filters = Leaf("season", "summer")

(***************************************************************************)
(* C20 - color                                                             *)
(***************************************************************************)
ColorLeaves(where) == {l \in Leaves(where) : l.field = "color"}

\* C20: any non-empty color, whatever it is, compiles to the clause
\* color $eq lower-cased value, in the stage-1 predicate only; an absent or
\* empty color gives no color clause.
C20_ColorCompilation ==
    /\ pc = "compiled1"
       => IF filters.color \in {None, ""}
          THEN ColorLeaves(current_filters) = {}
          ELSE /\ ColorLeaves(current_filters)
                    = {[op |-> "$eq", field |-> "color", value |-> Lower(filters.color),
                        alts |-> {}, args |-> << >>]}
               /\ ColorLeaves(current_filters) \subseteq Clauses(current_filters)
    /\ pc \in {"compiled2", "compiled3"} => ColorLeaves(current_filters) = {}

\* A color outside any list, in mixed case, next to other filters.
C20_Witness ==
    /\ pc = "compiled1"
    /\ filters.color = "Red" /\ ValidGender(filters)
    /\ EqLeaf("color", "red") \in Clauses(current_filters)


(***************************************************************************)
(* C18: a search changes neither the records of the store nor the          *)
(* module-level collection handle, and its only outbound calls are one     *)
(* embedding call and up to three store queries (reads).  The valid-value  *)
(* sets are constants of the module.                                       *)
(***************************************************************************)
OnlyReads ==
    /\ \A i \in 1..Len(calls) : calls[i].api \in {"embed", "query"}
    /\ Cardinality(EmbedCalls) <= 1
    /\ Cardinality(QueryCalls) <= 3

\* C18: across any sequence of searches (found, empty or failed) no step
\* changes the store or the collection handle, and the outbound calls of a
\* search are at most one embedding call and three store queries.
C18_SearchOnlyReads ==
    /\ [][store' = store /\ product_collection' = product_collection]_vars
    /\ []OnlyReads

\* A search that went through its three stages over a non-empty store and
\* failed in the last one.
C18_Witness ==
    /\ pc = "responded"
    /\ store # << >>
    /\ Len(calls) = 4
    /\ calls[4].raised
    /\ response.message = "Error in Stage 3 search"

(***************************************************************************)
(* C17: the same search twice over an unchanged store                      *)
(***************************************************************************)
StagePredicates(log) == [i \in 1..Len(log) |-> log[i].where]
SecondSearchDone == previous # << >> /\ pc = "responded"

\* C17: with a deterministic provider and store, the second of two searches
\* with the same query and filters issues the stage predicates of the first,
\* in the same order, and returns the same ordered list of products (and the
\* same message).
C17_RepeatedSearchIsTheSame ==
    SecondSearchDone =>
        /\ StagePredicates(calls) = StagePredicates(previous[1].calls)
        /\ calls = previous[1].calls
        /\ search_results = previous[1].search_results
        /\ response = previous[1].response

\* Both searches went through the three stages and found three products in
\* the last one.
C17_Witness ==
    /\ SecondSearchDone
    /\ Len(previous[1].calls) = 4
    /\ Len(calls) = 4
    /\ Len(search_results.products) = 3

(***************************************************************************)
(* C19: searches running at the same time                                  *)
(***************************************************************************)
StageFilters(n, f) ==
    CASE n = 1 -> Stage1Filters(f)
      [] n = 2 -> Stage2Filters(f)
      [] n = 3 -> Stage3Filters(f)

\* What find_apparel returns after the calls of log, run alone.
OutcomeOf(log) ==
    LET last == log[Len(log)]
    IN IF last.api = "embed" THEN Failed("Error processing query")
       ELSE IF last.raised THEN Failed(StageErrorMessage(last.stage))
       ELSE Found(last.returned)

\* The calls and the outcome of the invocation of frame fr are those of the
\* invocation run alone: one embedding of its own query first, then stage
\* queries in order, each with the embedding of its own query and the stage
\* predicate of its own filters, answered from the store; the value returned
\* follows from its own last call.
RunsAsAlone(fr) ==
    /\ \A i \in 1..Len(fr.calls) :
          LET c == fr.calls[i]
          IN IF i = 1
             THEN c.api = "embed" /\ c.input = fr.user_query
             ELSE /\ c.api = "query"
                  /\ c.embedding = Embedding(fr.user_query)
                  /\ c.where = StageFilters(c.stage, fr.filters)
                  /\ i > 2 => c.stage > fr.calls[i - 1].stage
                  /\ ~c.raised =>
                        c.returned = QueryMetadatas(store, Embedding(fr.user_query),
                                                    N_RESULTS, c.where)
    /\ Len(fr.calls) > 1 => fr.query_embedding = Embedding(fr.user_query)
    /\ fr.pc \in {"ret", "responded"} /\ fr.calls # << >> =>
          fr.search_results = OutcomeOf(fr.calls)
    /\ fr.pc = "responded" /\ fr.calls # << >> =>
          /\ fr.response.status = 200
          /\ fr.response.products = fr.search_results.products
          /\ fr.response.message = fr.search_results.message

\* C19: in every interleaving of the steps of the handler threads, each
\* invocation issues the stage queries (same embedding, same predicates) and
\* returns the outcome it has when it runs alone.
C19_NoInterference ==
    /\ RunsAsAlone(CurrentFrame)
    /\ \A i \in 1..Len(parked) : RunsAsAlone(parked[i])

\* Two searches for different queries are both in the middle of their
\* stages: one was suspended before stage 3, the other is before stage 2.
C19_Witness ==
    /\ Len(parked) >= 1
    /\ pc = "stage2"
    /\ parked[1].pc = "stage3"
    /\ user_query # parked[1].user_query
    /\ Len(calls) = 2
    /\ Len(parked[1].calls) = 3

(***************************************************************************)
(* C21: each stage relaxes the one before                                  *)
(***************************************************************************)
\* Every clause of where2 is a clause of where1, and every stored record
\* that satisfies where1 satisfies where2.
Relaxes(where1, where2) ==
    /\ Clauses(where2) \subseteq Clauses(where1)
    /\ \A rec \in StoredProducts : Matches(rec, where1) => Matches(rec, where2)

\* C21: for every filter request, the clauses of the stage-3 predicate are
\* among those of the stage-2 predicate, which are among those of the
\* stage-1 predicate, and a record that satisfies the predicate of a stage
\* satisfies the predicate of the next stage.
C21_MonotoneRelaxation ==
    /\ pc = "compiled1" => current_filters = Stage1Filters(filters)
    /\ pc = "compiled2" => Relaxes(Stage1Filters(filters), current_filters)
    /\ pc = "compiled3" =>
          /\ Relaxes(Stage2Filters(filters), current_filters)
          /\ Relaxes(Stage1Filters(filters), current_filters)

\* Three, two and one clause in stages 1, 2 and 3, and a stored record that
\* only the stage-3 predicate lets through.
C21_Witness ==
    /\ pc = "compiled3"
    /\ Cardinality(Clauses(Stage1Filters(filters))) = 3
    /\ Cardinality(Clauses(Stage2Filters(filters))) = 2
    /\ Cardinality(Clauses(current_filters)) = 1
    /\ Matches(UnisexHat, current_filters)
    /\ ~Matches(UnisexHat, Stage2Filters(filters))

(***************************************************************************)
(* C22: what is returned respects the hard filters                         *)
(***************************************************************************)
\* The record satisfies the gender clause / the season clause compiled from
\* the request (nothing to satisfy when the value is not valid).
RespectsGender(rec, f) ==
    ValidGender(f) => ClauseHolds(rec, GenderFilters(f.gender)[1])
RespectsSeason(rec, f) ==
    ValidSeason(f) => ClauseHolds(rec, SeasonFilters(f.season)[1])

\* C22: the store answering a query with records that satisfy its predicate,
\* every record of a non-empty result of find_apparel, whichever stage found
\* it, satisfies the compiled gender clause when the gender is valid and the
\* compiled season clause when the season is valid.
C22_ResultsRespectHardFilters ==
    SearchEnded =>
        \A i \in 1..Len(search_results.products) :
            /\ RespectsGender(search_results.products[i], filters)
            /\ RespectsSeason(search_results.products[i], filters)

\* Stage 3 found records for a request with a valid gender and a valid
\* season, over a store that holds records the hard filters exclude.
C22_Witness ==
    /\ SearchEnded
    /\ StageQueried(3)
    /\ search_results.products # << >>
    /\ ValidGender(filters) /\ ValidSeason(filters)
    /\ \E k \in 1..Len(store) : ~RespectsGender(store[k], filters)

(***************************************************************************)
(* C23: an empty answer under a valid hard filter                          *)
(***************************************************************************)
\* The predicate compiled from the gender and the season alone.
HardFilters(f) ==
    get_chromadb_filters(f.gender, None, None, None, f.season, None, None, None)

\* C23: the store answering with at least one record whenever a record
\* satisfies the predicate, a search that had a valid gender or a valid
\* season and ended with an empty list and no failure means that no record of
\* the store satisfies the predicate compiled from gender and season alone.
C23_EmptyMeansNoHardMatch ==
    (EmptyResult /\ NothingFailed /\ (ValidGender(filters) \/ ValidSeason(filters)))
    => \A k \in 1..Len(store) : ~Matches(store[k], HardFilters(filters))

\* Three stages came back empty over a store that holds records, for a
\* request with a valid gender.
C23_Witness ==
    /\ EmptyResult /\ NothingFailed
    /\ ValidGender(filters)
    /\ StageCameBackEmpty(3)
    /\ Len(store) >= 2
====
